---------------------------- MODULE Spec2Model ----------------------------
(***************************************************************************)
(* Gas-index weighted-average price calculation of the "Price of Gas       *)
(* Calculator" (src/gas_price_calculator.py, create_gas_price_assistant;   *)
(* src/data_transform.py, create_price_calculation_assistant).             *)
(*                                                                         *)
(* The repository states the calculation as rules and worked examples in   *)
(* the assistant's instructions.  This module states those rules as the    *)
(* month walk  allocate(schedule, quotes)  they describe: one step per     *)
(* rule, taken in the order of priority the rules give.                    *)
(*                                                                         *)
(* Months are absolute month numbers  year * 12 + (month - 1).  Prices are *)
(* in hundredths of EUR/MWh (26.50 is 2650).                               *)
(***************************************************************************)
EXTENDS Integers, Sequences, FiniteSets, TLC

VARIABLES
    reference_month,   \* month of the Price Date
    start_month,       \* Start Supply Month
    duration_months,   \* Total Duration
    quotes,            \* Indexed Prices: index code -> price
    pc,                \* "validate", "walk", "compute", "done"
    cursor,            \* contract months walked so far
    slots,             \* set of <<month, index code>>: months mapped to an index
    unassigned,        \* months for which no index was found
    weights,           \* index code -> months_covered
    result,            \* the outcome of the call
    log,               \* the calls that have returned: inputs and outcome
    parked,            \* the thread of the other call in flight, if any
    mode               \* "alone": one call at a time; "concurrent": two

\* The price calculation and its calls.
GasVars == <<reference_month, start_month, duration_months, quotes, pc, cursor,
             slots, unassigned, weights, result, log, parked, mode>>

\* split_text_into_chunks (src/analyze_contracts.py).
VARIABLES
    text,              \* the text to split, a sequence of characters
    max_size,          \* the largest chunk, in characters
    paragraphs,        \* the paragraphs still to take
    current_chunk,     \* the chunk being filled
    chunks,            \* the chunks made
    chunk_pc           \* "idle", "start", "paragraph", "split", "done"

ChunkVars == <<text, max_size, paragraphs, current_chunk, chunks, chunk_pc>>

ChunkIdle ==
    /\ text = <<>>
    /\ max_size = 0
    /\ paragraphs = <<>>
    /\ current_chunk = <<>>
    /\ chunks = <<>>
    /\ chunk_pc = "idle"

\* process_with_retry (src/ext_unstructured.py).
VARIABLES
    max_retries,       \* attempts allowed
    attempt,           \* the attempt being made, from 0
    tried,             \* what each attempt made so far came to
    e,                 \* the local name e: "unbound" or the exception bound to it
    retry_result,      \* what the call came to: a dict returned or an exception
    retry_pc           \* "idle", "loop", "return", "done"

RetryVars == <<max_retries, attempt, tried, e, retry_result, retry_pc>>

RetryIdle ==
    /\ max_retries = 0
    /\ attempt = 0
    /\ tried = <<>>
    /\ e = "unbound"
    /\ retry_result = [kind |-> "none"]
    /\ retry_pc = "idle"

\* process_contracts.main (src/process_contracts.py).
VARIABLES
    output_csv,        \* OUTPUT_FILE: the pages whose rows were appended, in order
    progress_file,     \* PROGRESS_FILE: the checkpoint, or NoFile
    start_page,        \* the page the run started from
    page,              \* the page of the loop
    total_contracts,   \* rows counted by the run
    runs,              \* runs started
    scrape_pc          \* "idle", "start", "loop", "ended", "completed"

ScrapeVars == <<output_csv, progress_file, start_page, page, total_contracts,
                runs, scrape_pc>>

\* A file that does not exist.
NoFile == [exists |-> FALSE]

ScrapeIdle ==
    /\ output_csv = <<>>
    /\ progress_file = NoFile
    /\ start_page = 0
    /\ page = 0
    /\ total_contracts = 0
    /\ runs = 0
    /\ scrape_pc = "idle"

\* process_contract_details.main (src/process_contract_details.py).
VARIABLES
    details_csv,       \* the output CSV: the input rows whose details were appended
    details_progress,  \* PROGRESS_FILE of the script: the checkpoint, or NoFile
    start_index,       \* the row the run started from
    row_index,         \* i: the row of the loop
    total_processed,   \* rows counted by the run
    details_runs,      \* runs started
    details_pc         \* "idle", "start", "loop", "ended", "completed"

DetailsVars == <<details_csv, details_progress, start_index, row_index, total_processed, details_runs, details_pc>>

DetailsIdle ==
    /\ details_csv = <<>>
    /\ details_progress = NoFile
    /\ start_index = 0
    /\ row_index = 0
    /\ total_processed = 0
    /\ details_runs = 0
    /\ details_pc = "idle"

\* analyze_contracts (src/analyze_contracts.py).
VARIABLES
    output_file,        \* the output CSV: the ids of its rows, in order
    analysis_progress,  \* PROGRESS_FILE of the script: the saved progress, or NoFile
    progress,           \* the progress dictionary of the run
    output_rows,        \* the rows of the run, in memory
    contract_index,     \* i: the contract of the loop
    analyze_runs,       \* runs started
    analyze_pc          \* "idle", "start", "loop", "saved", "ended"

AnalyzeVars == <<output_file, analysis_progress, progress, output_rows, contract_index, analyze_runs, analyze_pc>>

AnalyzeIdle ==
    /\ output_file = <<>>
    /\ analysis_progress = NoFile
    /\ progress = [completed_ids |-> {}, last_processed_index |-> -1, errors |-> {}]
    /\ output_rows = <<>>
    /\ contract_index = 0
    /\ analyze_runs = 0
    /\ analyze_pc = "idle"

\* vortal_extract.process_csv (src/vortal_extract.py).
VARIABLES
    download_progress,     \* download_progress.json: the processed URLs, or NoFile
    error_file,            \* download_errors.json: the incomplete downloads, or NoFile
    documents,             \* per URL, what its last extraction downloaded
    processed_urls,        \* the set of the run
    incomplete_downloads,  \* download_tracker.incomplete_downloads of the run
    valid_entries,         \* the URLs the run will process, in CSV order
    entry_index,           \* i: the entry of the loop
    vortal_runs,           \* runs started
    vortal_pc              \* "idle", "start", "loop", "ended"

VortalVars == <<download_progress, error_file, documents, processed_urls, incomplete_downloads, valid_entries, entry_index, vortal_runs, vortal_pc>>

VortalIdle ==
    /\ download_progress = NoFile
    /\ error_file = NoFile
    /\ documents = <<>>
    /\ processed_urls = {}
    /\ incomplete_downloads = {}
    /\ valid_entries = <<>>
    /\ entry_index = 1
    /\ vortal_runs = 0
    /\ vortal_pc = "idle"

\* GasTenderProcessor.extract_mibgas_data (src/gas_tender_processor.py).
VARIABLES
    col_indices,               \* the required columns found in the headers
    rows,                      \* the rows of the CSV: "short" or "full"
    row_idx,                   \* the row of the loop, from 1
    winner_proposals,          \* per entry, the row that appended it
    companies_with_proposals,  \* per entry, the row that appended it
    price_dates,               \* per entry, the row that appended it
    start_supply_months,       \* per entry, the row that appended it
    new_rows,                  \* the rows _write_updated_csv wrote
    tender_pc                  \* "idle", "loop", "written"

TenderVars == <<col_indices, rows, row_idx, winner_proposals, companies_with_proposals, price_dates, start_supply_months, new_rows, tender_pc>>

TenderIdle ==
    /\ col_indices = {}
    /\ rows = <<>>
    /\ row_idx = 1
    /\ winner_proposals = <<>>
    /\ companies_with_proposals = <<>>
    /\ price_dates = <<>>
    /\ start_supply_months = <<>>
    /\ new_rows = <<>>
    /\ tender_pc = "idle"

\* The other scripts of the repository, at rest.
Scripts == <<ChunkVars, RetryVars, ScrapeVars, DetailsVars, AnalyzeVars, VortalVars, TenderVars>>

ScriptsIdle == ChunkIdle /\ RetryIdle /\ ScrapeIdle /\ DetailsIdle /\ AnalyzeIdle /\ VortalIdle /\ TenderIdle

\* What split_text_into_chunks leaves alone.
NotChunk == <<GasVars, RetryVars, ScrapeVars, DetailsVars, AnalyzeVars, VortalVars, TenderVars>>

\* What process_with_retry leaves alone.
NotRetry == <<GasVars, ChunkVars, ScrapeVars, DetailsVars, AnalyzeVars, VortalVars, TenderVars>>

\* What process_contracts.main leaves alone.
NotScrape == <<GasVars, ChunkVars, RetryVars, DetailsVars, AnalyzeVars, VortalVars, TenderVars>>

\* What process_contract_details.main leaves alone.
NotDetails == <<GasVars, ChunkVars, RetryVars, ScrapeVars, AnalyzeVars, VortalVars, TenderVars>>

\* What analyze_contracts leaves alone.
NotAnalyze == <<GasVars, ChunkVars, RetryVars, ScrapeVars, DetailsVars, VortalVars, TenderVars>>

\* What vortal_extract.process_csv leaves alone.
NotVortal == <<GasVars, ChunkVars, RetryVars, ScrapeVars, DetailsVars, AnalyzeVars, TenderVars>>

\* What GasTenderProcessor.extract_mibgas_data leaves alone.
NotTender == <<GasVars, ChunkVars, RetryVars, ScrapeVars, DetailsVars, AnalyzeVars, VortalVars>>

vars == <<GasVars, Scripts>>

-----------------------------------------------------------------------------
(* Bounds of the model. *)

\* Largest distance, in months, from the Price Date's month to the start month
\* in the enumerated schedules.
MaxOffset == 4

\* Longest contract, in months, in the enumerated schedules.
MaxDuration == 8

\* Longest contract, in months, in the enumerated schedules of more than 24
\* months.
MaxLongDuration == 26

-----------------------------------------------------------------------------
(* Calendar. *)

RefYear == 2024

Month(y, m) == y * 12 + (m - 1)

YearOf(m) == m \div 12

MonthOfYear(m) == (m % 12) + 1

QuarterOf(m) == m \div 3

Min(a, b) == IF a < b THEN a ELSE b

\* January, April, July, October: the start-of-quarter months.
IsQuarterStart(m) == m % 3 = 0

\* Months from m to the end of m's calendar quarter, m included.
MonthsLeftInQuarter(m) == 3 - (m % 3)

\* First semester of the year: January to June.
InFirstSemester(m) == MonthOfYear(m) <= 6

-----------------------------------------------------------------------------
(* Index codes. *)

MaxMonthAhead == 3

MaxQuarterAhead == 4

MaxYearAhead == 2

GMAES == <<"GMAES", 1>>

GMES(k) == <<"GMES_M+", k>>

GQES(k) == <<"GQES_Q+", k>>

GYES(k) == <<"GYES_Y+", k>>

IndexCodes ==
    {GMAES} \cup {GMES(k) : k \in 2..MaxMonthAhead}
            \cup {GQES(k) : k \in 1..MaxQuarterAhead}
            \cup {GYES(k) : k \in 1..MaxYearAhead}


\* No index: the value of a rule that does not apply.
NoIndex == <<"none", 0>>

HasQuote(c) == c \in DOMAIN quotes

\* "The indexes are always related to the month of the Price Date":
\* GMAES is the month after it, GMES_M+k the k-th month after it.
MonthOffset(m) == m - reference_month

\* Mutant: the Price Date's own quarter counted as Q+1.
QuarterOffset_Inclusive(m) == QuarterOf(m) - QuarterOf(reference_month) + 1

\* GQES_Q+k is the k-th calendar quarter after the Price Date's quarter
\* (16/06/2024 -> GQES_Q+1: Jul-Sep).
QuarterOffset(m) == QuarterOf(m) - QuarterOf(reference_month)

\* Mutant: the Price Date's own year counted as Y+1.
YearOffset_Inclusive(m) == YearOf(m) - YearOf(reference_month) + 1

\* GYES_Y+k is the k-th calendar year after the Price Date's year
\* (16/06/2024 -> GYES_Y+1: year 2025).
YearOffset(m) == YearOf(m) - YearOf(reference_month)

\* The months an index code stands for, seen from Price Date month r.
Period(r, c) ==
    CASE c[1] = "GMAES"   -> {r + 1}
      [] c[1] = "GMES_M+" -> {r + c[2]}
      [] c[1] = "GQES_Q+" -> LET q == QuarterOf(r) + c[2] IN (3 * q)..(3 * q + 2)
      [] c[1] = "GYES_Y+" -> LET y == YearOf(r) + c[2] IN (12 * y)..(12 * y + 11)
      [] OTHER            -> {}

-----------------------------------------------------------------------------
(* The rules. *)

\* "The GQES_Q+1 must be skipped ... if the Price Date differs 2 or more
\* months from the Start Supply Month Index."
PriceDateDiffers == start_month - reference_month >= 2

\* "If the month of the Price Date is in one of the months: January, April,
\* July, or October ... we must always use the GQES_Q+1."
AlwaysUseQ1 == IsQuarterStart(reference_month)

\* Mutant: the skip rule forgotten.
Q1Skipped_Never == FALSE

Q1Skipped == PriceDateDiffers /\ ~AlwaysUseQ1

\* Mutant: a monthly quote, where there is one, taken before the quarter.
FullQuarterIndex_MonthlyFirst(m, remaining) ==
    LET k == QuarterOffset(m)
        km == MonthOffset(m) IN
    IF /\ IsQuarterStart(m)
       /\ remaining >= 3
       /\ k >= 1
       /\ HasQuote(GQES(k))
       /\ ~(k = 1 /\ Q1Skipped)
       /\ ~(km = 1 /\ HasQuote(GMAES))
       /\ ~(km >= 2 /\ HasQuote(GMES(km)))
    THEN GQES(k) ELSE NoIndex

\* "Use GQES_Q+X only if it fully covers the entire quarter": month m opens a
\* calendar quarter, the quarter's three months are still to be priced, and
\* its quote is there.  Quarters have priority over the monthly indexes.
FullQuarterIndex(m, remaining) ==
    LET k == QuarterOffset(m) IN
    IF /\ IsQuarterStart(m)
       /\ remaining >= 3
       /\ k >= 1
       /\ HasQuote(GQES(k))
       /\ ~(k = 1 /\ Q1Skipped)
    THEN GQES(k) ELSE NoIndex

\* Mutant: the monthly offsets counted from the Start Supply Month instead of
\* the Price Date.
MonthlyIndex_FromStart(m) ==
    LET k == m - start_month + 1 IN
    IF k = 1 /\ HasQuote(GMAES) THEN GMAES
    ELSE IF k >= 2 /\ k <= MaxMonthAhead /\ HasQuote(GMES(k)) THEN GMES(k)
    ELSE NoIndex

\* "Use GMES_M+X and GMAES for monthly pricing if available."
MonthlyIndex(m) ==
    LET k == MonthOffset(m) IN
    IF k = 1 /\ HasQuote(GMAES) THEN GMAES
    ELSE IF k >= 2 /\ HasQuote(GMES(k)) THEN GMES(k)
    ELSE NoIndex

\* Mutant: the current month left out of the months of its quarter.
PartialQuarterMonths_Exclusive(m, remaining) == Min(MonthsLeftInQuarter(m) - 1, remaining)

\* Mutant: a quarterly quote always weighted with the 3 months of a quarter.
PartialQuarterMonths_WholeQuarter(m, remaining) == 3

\* Mutant: the quarter's months counted past the end of the contract
\* ("it will have one more month that wasnt supposed to").
PartialQuarterMonths_Overcount(m, remaining) == MonthsLeftInQuarter(m)

\* Months a quarterly quote is weighted with when it is used for part of a
\* quarter: the months of the quarter from m on, and no more than the
\* contract has left ("GQES_Q+X times the number of months in that quarter",
\* "we multiply by 2 because there are only 2 months").
PartialQuarterMonths(m, remaining) == Min(MonthsLeftInQuarter(m), remaining)

\* Mutant: a quarterly quote never used for a quarter the contract ends in.
PartialQuarterAllowed_FullOnly(m, remaining) == remaining >= MonthsLeftInQuarter(m)

\* A quarter cut short by the end of the contract takes its quarterly quote
\* only when the Start Supply Month is in the first semester (example 4);
\* in the second semester those months go to the annual index.
PartialQuarterAllowed(m, remaining) ==
    \/ remaining >= MonthsLeftInQuarter(m)
    \/ InFirstSemester(start_month)

\* Mutant: a skipped GQES_Q+1 not used for part of its quarter either.
PartialQuarterIndex_SkipQ1(m, remaining) ==
    LET k == QuarterOffset(m) IN
    IF /\ k >= 1
       /\ HasQuote(GQES(k))
       /\ PartialQuarterAllowed(m, remaining)
       /\ ~(k = 1 /\ Q1Skipped)
    THEN GQES(k) ELSE NoIndex

\* "there is still one month left and we dont have the GMES_M+4 we will need
\* to use GQES_Q+X times the number of months in that quarter"; "we need to
\* use GQES_Q+1 we dont have other option" (example 5).
PartialQuarterIndex(m, remaining) ==
    LET k == QuarterOffset(m) IN
    IF k >= 1 /\ HasQuote(GQES(k)) /\ PartialQuarterAllowed(m, remaining)
    THEN GQES(k) ELSE NoIndex

\* Mutant: the months of the Price Date's own year priced with GYES_Y+1.
AnnualIndex_Default(m) ==
    LET j == YearOffset(m) IN
    IF j >= 1 /\ j <= MaxYearAhead /\ HasQuote(GYES(j)) THEN GYES(j)
    ELSE IF j = MaxYearAhead + 1 /\ duration_months > 24 /\ HasQuote(GYES(MaxYearAhead))
         THEN GYES(MaxYearAhead)
    ELSE IF j = 0 /\ HasQuote(GYES(1)) THEN GYES(1)
    ELSE NoIndex

\* "For any missing months, use GYES_Y+X for annual coverage"; for a contract
\* of more than 24 months, "use the GYES_Y+2 for the months of the year+3".
\* Mutant: no annual quote for the months of the third year.
AnnualIndex_NoThirdYear(m) ==
    LET j == YearOffset(m) IN
    IF j >= 1 /\ j <= MaxYearAhead /\ HasQuote(GYES(j)) THEN GYES(j)
    ELSE NoIndex

AnnualIndex(m) ==
    LET j == YearOffset(m) IN
    IF j >= 1 /\ j <= MaxYearAhead /\ HasQuote(GYES(j)) THEN GYES(j)
    ELSE IF j = MaxYearAhead + 1 /\ duration_months > 24 /\ HasQuote(GYES(MaxYearAhead))
         THEN GYES(MaxYearAhead)
    ELSE NoIndex

-----------------------------------------------------------------------------
(* Weights and the weighted average. *)

EmptyWeights == [c \in {} |-> 0]

\* weights["INDEX_NAME"] gains n months.
AddWeight(w, c, n) ==
    IF c \in DOMAIN w
    THEN [w EXCEPT ![c] = @ + n]
    ELSE [x \in DOMAIN w \cup {c} |-> IF x = c THEN n ELSE w[x]]

RECURSIVE SumOver(_, _)
SumOver(f, S) ==
    IF S = {} THEN 0
    ELSE LET c == CHOOSE x \in S : TRUE IN f[c] + SumOver(f, S \ {c})

\* sum of months_covered
TotalMonths(w) == SumOver(w, DOMAIN w)

\* sum(value * months for value, months in weights.values())
WeightedSum(w) == SumOver([c \in DOMAIN w |-> quotes[c] * w[c]], DOMAIN w)

\* Mutant: the price cut to 2 decimals, not rounded.
Round2_Truncate(num, den) == num \div den

\* round(x / total_months, 2) on prices in hundredths, a half rounded up
\* (example 1: 707.16 / 24 = 29.465 -> 29.47).
Round2(num, den) == (2 * num + den) \div (2 * den)

\* Mutant: the sum divided by 24 whatever the duration (the code line of
\* example 5).
WeightedAverage_By24(w, total_months) == Round2(WeightedSum(w), 24)

\* Mutant: every entry's share rounded to 2 decimals before it is added.
WeightedAverage_PerEntry(w, total_months) ==
    SumOver([c \in DOMAIN w |-> Round2(quotes[c] * w[c], total_months)], DOMAIN w)

\* average = round(sum(...) / total_months, 2)
WeightedAverage(w, total_months) == Round2(WeightedSum(w), total_months)

\* Mutant: the block starts one month late.
BlockMonths_Shifted(first, n) == (first + 1)..(first + n)

\* The months of one step: n months from month first on.
BlockMonths(first, n) == first..(first + n - 1)

-----------------------------------------------------------------------------
(* Outcomes. *)

InvalidScheduleError == [kind |-> "InvalidScheduleError"]

NoQuoteAvailableError == [kind |-> "NoQuoteAvailableError"]

CoverageMismatchError == [kind |-> "CoverageMismatchError"]

Pending == [kind |-> "pending"]

AllocationResult(w, avg) ==
    [kind |-> "AllocationResult", months_covered |-> w, weighted_average |-> avg]

\* Mutant: the start month not checked against the Price Date.
ValidSchedule_NoStartCheck == duration_months >= 1

\* duration_months >= 1 and start_month not before the Price Date's month.
ValidSchedule == duration_months >= 1 /\ start_month >= reference_month

\* An incomplete allocation is an error; the months' total is checked
\* defensively before the price is computed.
Outcome ==
    IF unassigned # {} THEN NoQuoteAvailableError
    ELSE IF TotalMonths(weights) # duration_months THEN CoverageMismatchError
    ELSE AllocationResult(weights, WeightedAverage(weights, duration_months))

-----------------------------------------------------------------------------
(* The month walk. *)

CurrentMonth == start_month + cursor

Remaining == duration_months - cursor

Walking == pc = "walk" /\ cursor < duration_months

Inputs == <<reference_month, start_month, duration_months, quotes>>

\* What is outside the call that is running.
Calls == <<log, parked, mode, Scripts>>

\* n months from the current month on go to index c.
Assign(c, n) ==
    /\ slots' = slots \cup {<<m, c>> : m \in BlockMonths(CurrentMonth, n)}
    /\ weights' = AddWeight(weights, c, n)
    /\ cursor' = cursor + n
    /\ UNCHANGED <<Inputs, pc, unassigned, result, Calls>>

Validate ==
    /\ pc = "validate"
    /\ IF ValidSchedule
       THEN pc' = "walk" /\ result' = result
       ELSE pc' = "done" /\ result' = InvalidScheduleError
    /\ UNCHANGED <<Inputs, cursor, slots, unassigned, weights, Calls>>

AssignFullQuarter ==
    /\ Walking
    /\ FullQuarterIndex(CurrentMonth, Remaining) # NoIndex
    /\ Assign(FullQuarterIndex(CurrentMonth, Remaining), 3)

AssignMonthly ==
    /\ Walking
    /\ FullQuarterIndex(CurrentMonth, Remaining) = NoIndex
    /\ MonthlyIndex(CurrentMonth) # NoIndex
    /\ Assign(MonthlyIndex(CurrentMonth), 1)

AssignPartialQuarter ==
    /\ Walking
    /\ FullQuarterIndex(CurrentMonth, Remaining) = NoIndex
    /\ MonthlyIndex(CurrentMonth) = NoIndex
    /\ PartialQuarterIndex(CurrentMonth, Remaining) # NoIndex
    /\ Assign(PartialQuarterIndex(CurrentMonth, Remaining),
              PartialQuarterMonths(CurrentMonth, Remaining))

\* Mutant: the annual index taken wherever it is supplied, whatever the
\* quarterly and monthly quotes.
AssignAnnual_First ==
    /\ Walking
    /\ AnnualIndex(CurrentMonth) # NoIndex
    /\ Assign(AnnualIndex(CurrentMonth), 1)

AssignAnnual ==
    /\ Walking
    /\ FullQuarterIndex(CurrentMonth, Remaining) = NoIndex
    /\ MonthlyIndex(CurrentMonth) = NoIndex
    /\ PartialQuarterIndex(CurrentMonth, Remaining) = NoIndex
    /\ AnnualIndex(CurrentMonth) # NoIndex
    /\ Assign(AnnualIndex(CurrentMonth), 1)

MarkUnassigned ==
    /\ Walking
    /\ FullQuarterIndex(CurrentMonth, Remaining) = NoIndex
    /\ MonthlyIndex(CurrentMonth) = NoIndex
    /\ PartialQuarterIndex(CurrentMonth, Remaining) = NoIndex
    /\ AnnualIndex(CurrentMonth) = NoIndex
    /\ unassigned' = unassigned \cup {CurrentMonth}
    /\ cursor' = cursor + 1
    /\ UNCHANGED <<Inputs, pc, slots, weights, result, Calls>>

Finish ==
    /\ pc = "walk"
    /\ cursor >= duration_months
    /\ pc' = "done"
    /\ result' = Outcome
    /\ UNCHANGED <<Inputs, cursor, slots, unassigned, weights, Calls>>

Next ==
    \/ Validate
    \/ AssignFullQuarter
    \/ AssignMonthly
    \/ AssignPartialQuarter
    \/ AssignAnnual
    \/ MarkUnassigned
    \/ Finish

-----------------------------------------------------------------------------
(* Inputs. *)

\* Prices of the enumerated schedules, one per index code.
ListedPrice(c) ==
    CASE c[1] = "GMAES"   -> 3013
      [] c[1] = "GMES_M+" -> 2650 + 10 * c[2]
      [] c[1] = "GQES_Q+" -> 2458 + 257 * c[2]
      [] c[1] = "GYES_Y+" -> 3263 - 203 * c[2]
      [] OTHER            -> 0

Max(a, b) == IF a > b THEN a ELSE b

\* The index codes that can matter to a schedule: those standing for a month
\* between the Price Date and one month past the end of the contract.
CodesInReach(r, s, d) ==
    {c \in IndexCodes : Period(r, c) \cap ((r + 1)..Max(s + d, r + 2)) # {}}

\* Every Price Date month of the year, every start month from one month
\* before it to MaxOffset months after it, every duration from 0 to
\* MaxDuration, and every set of quotes within reach.
EnumeratedInput ==
    \E r \in Month(RefYear, 1)..Month(RefYear, 12) :
    \E o \in (-1)..MaxOffset :
    \E d \in 0..MaxDuration :
    \E Q \in SUBSET CodesInReach(r, r + o, d) :
        /\ reference_month = r
        /\ start_month = r + o
        /\ duration_months = d
        /\ quotes = [c \in Q |-> ListedPrice(c)]

\* Contracts of more than 24 months: every Price Date month, a start one or
\* two months after it, and every set of the nearest monthly and quarterly
\* quotes and the two annual quotes.
LongContractInput ==
    \E r \in Month(RefYear, 1)..Month(RefYear, 12) :
    \E o \in 1..2 :
    \E d \in 25..MaxLongDuration :
    \E Q \in SUBSET {GMAES, GQES(1), GYES(1), GYES(2)} :
        /\ reference_month = r
        /\ start_month = r + o
        /\ duration_months = d
        /\ quotes = [c \in Q |-> ListedPrice(c)]

Quote(c, v) == <<c, v>>

QuoteMap(S) == [c \in {q[1] : q \in S} |-> (CHOOSE q \in S : q[1] = c)[2]]

\* Example 1.
ScenarioA ==
    [ref |-> Month(2024, 4), start |-> Month(2024, 6), duration |-> 24,
     quotes |-> QuoteMap({Quote(GMES(2), 2650), Quote(GQES(1), 2715),
                          Quote(GQES(2), 2972), Quote(GYES(1), 3060),
                          Quote(GYES(2), 2857)})]

\* Example 3.
ScenarioB ==
    [ref |-> Month(2024, 3), start |-> Month(2024, 5), duration |-> 12,
     quotes |-> QuoteMap({Quote(GMES(2), 2692), Quote(GMES(3), 2702),
                          Quote(GQES(2), 2730), Quote(GQES(3), 2998),
                          Quote(GQES(4), 3107), Quote(GYES(1), 2965)})]

\* Example 4.
ScenarioC ==
    [ref |-> Month(2024, 4), start |-> Month(2024, 6), duration |-> 12,
     quotes |-> QuoteMap({Quote(GMES(2), 3183), Quote(GQES(1), 3248),
                          Quote(GQES(2), 3569), Quote(GQES(3), 3753),
                          Quote(GQES(4), 3394)})]

\* Example 5.
Example5 ==
    [ref |-> Month(2024, 5), start |-> Month(2024, 8), duration |-> 12,
     quotes |-> QuoteMap({Quote(GQES(1), 3450), Quote(GQES(2), 3759),
                          Quote(GYES(1), 3720)})]

\* Example 2.
Example2 ==
    [ref |-> Month(2024, 5), start |-> Month(2024, 6), duration |-> 24,
     quotes |-> QuoteMap({Quote(GMAES, 3013), Quote(GQES(1), 3061),
                          Quote(GQES(2), 3399), Quote(GYES(1), 3392),
                          Quote(GYES(2), 2859)})]

WorkedExamples == {ScenarioA, ScenarioB, ScenarioC, Example5, Example2}

Given(in) ==
    /\ reference_month = in.ref
    /\ start_month = in.start
    /\ duration_months = in.duration
    /\ quotes = in.quotes

\* No other call in flight.
NoThread == [pc |-> "none"]

\* The first call: an empty thread, nothing returned yet, no other call.
FirstCall ==
    /\ pc = "validate"
    /\ cursor = 0
    /\ slots = {}
    /\ unassigned = {}
    /\ weights = EmptyWeights
    /\ result = Pending
    /\ log = <<>>
    /\ parked = NoThread
    /\ mode = "alone"

Init ==
    /\ \/ EnumeratedInput
       \/ LongContractInput
       \/ \E in \in WorkedExamples : Given(in)
    /\ FirstCall
    /\ ScriptsIdle

Spec == Init /\ [][Next]_vars

-----------------------------------------------------------------------------
(* Several calls: one after the other, and two at a time. *)

\* Calls made one after the other before the two concurrent ones.
MaxCalls == 2

\* Longest contract of the small contracts of a batch.
MaxCallDuration == 3

\* Mutant: the thread of the call before used again, its mapping and its
\* weights still in it.
NewThread_Reused ==
    [pc |-> "validate", cursor |-> 0, slots |-> slots, unassigned |-> unassigned,
     weights |-> weights, result |-> Pending]

\* thread = client.beta.threads.create(): every call works in a thread of
\* its own that starts empty.
NewThread ==
    [pc |-> "validate", cursor |-> 0, slots |-> {}, unassigned |-> {},
     weights |-> EmptyWeights, result |-> Pending]

\* The prompt of the running call: its schedule and its quotes.
Prompt ==
    [ref |-> reference_month, start |-> start_month, duration |-> duration_months,
     quotes |-> quotes]

\* A call: its prompt and its thread.
Call(in, t) ==
    [ref |-> in.ref, start |-> in.start, duration |-> in.duration,
     quotes |-> in.quotes, pc |-> t.pc, cursor |-> t.cursor, slots |-> t.slots,
     unassigned |-> t.unassigned, weights |-> t.weights, result |-> t.result]

\* The running call.
Running ==
    Call(Prompt, [pc |-> pc, cursor |-> cursor, slots |-> slots,
                  unassigned |-> unassigned, weights |-> weights, result |-> result])

\* Mutant: the weights kept in one table shared by all the calls.
Resume_SharedWeights(c) == [c EXCEPT !.weights = weights]

\* A call goes on with its own thread and run (runs.retrieve and
\* messages.list are given thread.id and run.id of the call).
Resume(c) == c

\* Call c becomes the running call.
Load(c) ==
    /\ reference_month' = c.ref
    /\ start_month' = c.start
    /\ duration_months' = c.duration
    /\ quotes' = c.quotes
    /\ pc' = c.pc
    /\ cursor' = c.cursor
    /\ slots' = c.slots
    /\ unassigned' = c.unassigned
    /\ weights' = c.weights
    /\ result' = c.result

\* What the running call has returned, with the inputs it was given.
Returned ==
    [inputs |-> Prompt,
     outcome |-> [result |-> result, slots |-> slots, unassigned |-> unassigned]]

\* Small contracts: every Price Date month, a start one or two months after
\* it, 2 to MaxCallDuration months, with every quote in reach or with the
\* quarterly and annual quotes only.
SmallContracts ==
    {[ref |-> r, start |-> r + o, duration |-> d,
      quotes |-> [c \in IF all THEN CodesInReach(r, r + o, d)
                        ELSE {x \in CodesInReach(r, r + o, d) :
                                  x[1] \in {GQES(1)[1], GYES(1)[1]}}
                  |-> ListedPrice(c)]] :
        r \in Month(RefYear, 1)..Month(RefYear, 12), o \in 1..2,
        d \in 2..MaxCallDuration, all \in BOOLEAN}

\* The contracts of a batch.
CallInputs == WorkedExamples \cup SmallContracts

\* The contracts a later call of the batch is made for.
LaterInputs == {Example5, ScenarioB}

\* The call has returned and the next one is made, for the same inputs as
\* the first call or for another contract.
CallAgain ==
    /\ pc = "done"
    /\ mode = "alone"
    /\ Len(log) < MaxCalls
    /\ log' = Append(log, Returned)
    /\ \E in \in LaterInputs \cup {Append(log, Returned)[1].inputs} :
           Load(Call(in, NewThread))
    /\ UNCHANGED <<parked, mode, Scripts>>

\* The calls for the last two contracts are made again, at the same time.
Fork ==
    /\ pc = "done"
    /\ mode = "alone"
    /\ Len(log) >= 1
    /\ log' = Append(log, Returned)
    /\ mode' = "concurrent"
    /\ Load(Call(log[Len(log)].inputs, NewThread))
    /\ parked' = Call(Prompt, NewThread)
    /\ UNCHANGED Scripts

\* The other call in flight takes its next steps.
Switch ==
    /\ mode = "concurrent"
    /\ parked' = Running
    /\ Load(Resume(parked))
    /\ UNCHANGED <<log, mode, Scripts>>

InitCalls ==
    /\ \E in \in CallInputs : Given(in)
    /\ FirstCall
    /\ ScriptsIdle

NextCalls ==
    \/ Next
    \/ CallAgain
    \/ Fork
    \/ Switch

CallsSpec == InitCalls /\ [][NextCalls]_vars

-----------------------------------------------------------------------------
(* Properties. *)

\* The contract window [start_month, start_month + duration_months - 1].
Window == start_month..(start_month + duration_months - 1)

\* The indexes month m is mapped to.
IndexesOf(m) == {s[2] : s \in {t \in slots : t[1] = m}}

\* The months mapped to index c.
MonthsOf(c) == {s[1] : s \in {t \in slots : t[2] = c}}

Done == pc = "done"

\* Index code c stands for month m, or is the annual quote the rules repeat
\* for the months of year+3.
AppliesTo(c, m) ==
    \/ m \in Period(reference_month, c)
    \/ /\ c = GYES(MaxYearAhead)
       /\ YearOf(m) - YearOf(reference_month) = MaxYearAhead + 1
       /\ duration_months > 24

\* No supplied quote of any family stands for month m.
NoQuoteFor(m) == \A c \in DOMAIN quotes : ~AppliesTo(c, m)

\* C1: whenever allocate returns an AllocationResult, the months_covered of
\* its entries sum to exactly duration_months, and allocate never returns
\* CoverageMismatchError.
C1_CoverageInvariant ==
    /\ result.kind # "CoverageMismatchError"
    /\ result.kind = "AllocationResult" =>
           TotalMonths(result.months_covered) = duration_months

\* An AllocationResult built from three or more indexes.
C1_Witness ==
    /\ result.kind = "AllocationResult"
    /\ Cardinality(DOMAIN result.months_covered) >= 3

\* C2: in every AllocationResult each month of the contract window is mapped
\* to exactly one index, no month outside the window is mapped, and each
\* index's months_covered is the number of months mapped to it.
C2_ExactPartition ==
    result.kind = "AllocationResult" =>
        /\ \A m \in Window : Cardinality(IndexesOf(m)) = 1
        /\ \A s \in slots : s[1] \in Window
        /\ DOMAIN result.months_covered = {s[2] : s \in slots}
        /\ \A c \in DOMAIN result.months_covered :
               result.months_covered[c] = Cardinality(MonthsOf(c))

\* An AllocationResult with a quarter of three months and a single month.
C2_Witness ==
    /\ result.kind = "AllocationResult"
    /\ \E c \in DOMAIN result.months_covered :
           c[1] = "GQES_Q+" /\ result.months_covered[c] = 3
    /\ \E c \in DOMAIN result.months_covered :
           c[1] = "GMES_M+" /\ result.months_covered[c] = 1

C4_InvalidSchedule ==
    (duration_months < 1 \/ start_month < reference_month) =>
        /\ slots = {}
        /\ weights = EmptyWeights
        /\ result \in {Pending, InvalidScheduleError}
        /\ Done => result = InvalidScheduleError

\* A start month before the Price Date's month, with quotes, rejected.
C4_Witness ==
    /\ Done
    /\ start_month < reference_month
    /\ duration_months >= 1
    /\ DOMAIN quotes # {}
    /\ result = InvalidScheduleError

\* C5: if a GQES_Q+k quote exists, its quarter lies inside the contract
\* window and the Q+1 skip rule does not exclude it, the quarter's three
\* months are all mapped to GQES_Q+k and to no other index.
C5_QuarterPriority ==
    (Done /\ ValidSchedule) =>
        \A k \in 1..MaxQuarterAhead :
            (/\ HasQuote(GQES(k))
             /\ Period(reference_month, GQES(k)) \subseteq Window
             /\ ~(k = 1 /\ PriceDateDiffers))
            => \A m \in Period(reference_month, GQES(k)) : IndexesOf(m) = {GQES(k)}

\* A quarter inside the window whose first month also has a monthly quote.
C5_Witness ==
    /\ Done
    /\ \E k \in 1..MaxQuarterAhead :
        /\ HasQuote(GQES(k))
        /\ Period(reference_month, GQES(k)) \subseteq Window
        /\ ~(k = 1 /\ PriceDateDiffers)
        /\ \E m \in Period(reference_month, GQES(k)) :
               /\ IsQuarterStart(m)
               /\ \E c \in DOMAIN quotes :
                      c[1] \in {"GMAES", "GMES_M+"} /\ m \in Period(reference_month, c)
               /\ IndexesOf(m) = {GQES(k)}

FirstQ1Month == CHOOSE m \in MonthsOf(GQES(1)) : \A n \in MonthsOf(GQES(1)) : m <= n

C7_ScenarioA ==
    (Given(ScenarioA) /\ Done) =>
        result = AllocationResult(
                    QuoteMap({Quote(GMES(2), 1), Quote(GQES(1), 3), Quote(GQES(2), 3),
                              Quote(GYES(1), 12), Quote(GYES(2), 5)}),
                    2947)

C7_Witness == Given(ScenarioA) /\ Done /\ result.kind = "AllocationResult"

\* The months from first to last mapped to index c.
Mapped(first, last, c) == {<<m, c>> : m \in first..last}

\* C8: Scenario B (example 3) maps May 2024 to GMES_M+2, June 2024 to
\* GMES_M+3, Jul-Sep 2024 to GQES_Q+2, Oct-Dec 2024 to GQES_Q+3, Jan-Mar 2025
\* to GQES_Q+4 and April 2025 to GYES_Y+1, does not use GQES_Q+1, and returns
\* weighted_average 29.05.
C8_ScenarioB ==
    (Given(ScenarioB) /\ Done) =>
        /\ slots = Mapped(Month(2024, 5), Month(2024, 5), GMES(2))
                   \cup Mapped(Month(2024, 6), Month(2024, 6), GMES(3))
                   \cup Mapped(Month(2024, 7), Month(2024, 9), GQES(2))
                   \cup Mapped(Month(2024, 10), Month(2024, 12), GQES(3))
                   \cup Mapped(Month(2025, 1), Month(2025, 3), GQES(4))
                   \cup Mapped(Month(2025, 4), Month(2025, 4), GYES(1))
        /\ result.kind = "AllocationResult"
        /\ GQES(1) \notin DOMAIN result.months_covered
        /\ result.weighted_average = 2905

C8_Witness == Given(ScenarioB) /\ Done /\ Cardinality(slots) = 12

\* C9: Scenario C (example 4) maps the last two contract months, April and
\* May 2025, to GQES_Q+4 with months_covered 2, and returns weighted_average
\* 34.73.
C9_ScenarioC ==
    (Given(ScenarioC) /\ Done) =>
        /\ Mapped(Month(2025, 4), Month(2025, 5), GQES(4)) \subseteq slots
        /\ result.kind = "AllocationResult"
        /\ result.months_covered[GQES(4)] = 2
        /\ result.weighted_average = 3473

C9_Witness == Given(ScenarioC) /\ Done /\ MonthsOf(GQES(4)) # {}

UsedIndexes == {c \in DOMAIN result.months_covered : result.months_covered[c] >= 1}

MonthByMonthSum == SumOver([s \in slots |-> quotes[s[2]]], slots)

FallsToAnnual(m) ==
    \A c \in DOMAIN quotes : c[1] # "GYES_Y+" => m \notin Period(reference_month, c)

\* The contract months in the third calendar year after the Price Date's.
ThirdYearMonths == {m \in Window : YearOffset(m) = MaxYearAhead + 1}

\* C15: in a contract of more than 24 months, every month of the third
\* calendar year after the reference date's year that falls to the annual
\* fallback is assigned to GYES_Y+2 when that quote is supplied, and is not
\* left unassigned for lack of a GYES_Y+3 quote.
C15_ThirdYearRepeatsY2 ==
    (Done /\ ValidSchedule /\ duration_months > 24 /\ HasQuote(GYES(MaxYearAhead))) =>
        \A m \in ThirdYearMonths :
            FallsToAnnual(m) => (IndexesOf(m) = {GYES(MaxYearAhead)} /\ m \notin unassigned)

\* A finished long contract whose GYES_Y+2 entry holds months of year+2 and
\* of year+3.
C15_Witness ==
    /\ result.kind = "AllocationResult"
    /\ duration_months > 24
    /\ \E m \in ThirdYearMonths : FallsToAnnual(m) /\ GYES(MaxYearAhead) \in IndexesOf(m)
    /\ \E m \in Window : YearOffset(m) = MaxYearAhead /\ GYES(MaxYearAhead) \in IndexesOf(m)


\* The first month mapped to index c.
FirstMonthOf(c) == CHOOSE m \in MonthsOf(c) : \A n \in MonthsOf(c) : m <= n

\* The month after the last contract month.
WindowEnd == start_month + duration_months

\* C17: a quarterly quote used for only part of its quarter is weighted with
\* the N < 3 months of that quarter from the first month it was used for to
\* the end of the quarter or of the contract, whichever is first, and never
\* with more months than the contract had left.
C17_PartialQuarterWeight ==
    \A k \in 1..MaxQuarterAhead :
        LET c == GQES(k)
            quarter == Period(reference_month, c)
        IN  (MonthsOf(c) # {} /\ MonthsOf(c) # quarter) =>
                /\ weights[c] = Cardinality(MonthsOf(c))
                /\ weights[c] < 3
                /\ MonthsOf(c) = {m \in quarter \cap Window : m >= FirstMonthOf(c)}
                /\ weights[c] <= WindowEnd - FirstMonthOf(c)

\* A finished allocation with a quarterly quote used for the 2 months of a
\* quarter the contract ends in, and another used for the rest of the quarter
\* the contract starts in.
C17_Witness ==
    /\ result.kind = "AllocationResult"
    /\ \E k \in 1..MaxQuarterAhead :
           /\ HasQuote(GQES(k))
           /\ Cardinality(MonthsOf(GQES(k))) = 2
           /\ \E m \in Period(reference_month, GQES(k)) : m >= WindowEnd
    /\ \E k \in 1..MaxQuarterAhead :
           /\ HasQuote(GQES(k))
           /\ MonthsOf(GQES(k)) # {}
           /\ \E m \in Period(reference_month, GQES(k)) : m < FirstMonthOf(GQES(k))


\* The months mapped to an annual index.
AnnualMonths == {m \in Window : \E j \in 1..MaxYearAhead : GYES(j) \in IndexesOf(m)}

\* Some supplied monthly quote stands for month m.
HasMonthlyQuoteFor(m) ==
    \E c \in DOMAIN quotes :
        c[1] \in {GMAES[1], GMES(2)[1]} /\ m \in Period(reference_month, c)

\* A supplied quarterly quote stands for month m and may be used for it:
\* its quarter is not cut short by the end of the contract, or the contract
\* starts in the first semester.
HasQuarterlyQuoteFor(m) ==
    \E k \in 1..MaxQuarterAhead :
        /\ HasQuote(GQES(k))
        /\ m \in Period(reference_month, GQES(k))
        /\ \/ \A n \in Period(reference_month, GQES(k)) : n < WindowEnd
           \/ InFirstSemester(start_month)

\* C18: annual quotes are the last resort: a contract month is mapped to a
\* GYES_Y+j index only if no monthly quote stands for it and no quarterly
\* quote, whole or partial, can be used for it.
C18_AnnualLastResort ==
    \A m \in AnnualMonths : ~HasMonthlyQuoteFor(m) /\ ~HasQuarterlyQuoteFor(m)

\* A finished allocation with a month on the annual index although a
\* quarterly quote is supplied for its quarter (the contract starts in the
\* second semester and ends inside the quarter), next to months on monthly
\* and on quarterly indexes.
C18_Witness ==
    /\ result.kind = "AllocationResult"
    /\ \E m \in AnnualMonths :
           \E k \in 1..MaxQuarterAhead :
               HasQuote(GQES(k)) /\ m \in Period(reference_month, GQES(k))
    /\ \E m \in Window : HasMonthlyQuoteFor(m) /\ IndexesOf(m) \cap {GYES(1), GYES(2)} = {}
    /\ \E m \in Window : \E k \in 1..MaxQuarterAhead : GQES(k) \in IndexesOf(m)


\* The monthly index that stands for a month at offset k >= 1.
MonthlyCode(k) == IF k = 1 THEN GMAES ELSE GMES(k)

\* GMAES only at offset 1, GMES_M+k only at offset k.
MonthlyOffsetsExact ==
    \A s \in slots :
        /\ s[2] = GMAES => MonthOffset(s[1]) = 1
        /\ s[2][1] = GMES(2)[1] => MonthOffset(s[1]) = s[2][2]

\* Month m is in a quarter whose three months are all on its quarterly quote.
InWholeQuarter(m) ==
    \E k \in 1..MaxQuarterAhead :
        GQES(k) \in IndexesOf(m) /\ MonthsOf(GQES(k)) = Period(reference_month, GQES(k))

\* Month m is on a quarterly quote that was first used at an earlier month
\* for which no monthly quote is supplied.
InQuarterRemainder(m) ==
    \E k \in 1..MaxQuarterAhead :
        /\ GQES(k) \in IndexesOf(m)
        /\ FirstMonthOf(GQES(k)) < m
        /\ ~HasMonthlyQuoteFor(FirstMonthOf(GQES(k)))

SameYear(m, n) == YearOf(m) = YearOf(n)

\* Month m is in the third calendar year after the Price Date's.
InThirdYear(m) == YearOf(m) - YearOf(reference_month) = MaxYearAhead + 1

\* C19 as stated: a month on the annual fallback and all the contract months
\* after it in the same calendar year are on GYES_Y+j, j the number of
\* calendar years from the reference date's year, and no annual quote is
\* mapped to a month outside its own calendar year.
C19_AnnualBlockAsStated ==
    (Done /\ ValidSchedule) =>
        \A m \in AnnualMonths :
            /\ \E j \in 1..MaxYearAhead :
                   IndexesOf(m) = {GYES(j)} /\ m \in Period(reference_month, GYES(j))
            /\ \A n \in Window : (n > m /\ SameYear(m, n)) => IndexesOf(n) = IndexesOf(m)

\* C19: a month on the annual fallback is on GYES_Y+j, j the number of
\* calendar years from the reference date's year to the month's year, or on
\* GYES_Y+2 if it is a month of the third year of a contract of more than 24
\* months; every later contract month of the same calendar year is on the
\* same annual quote unless a monthly or a quarterly quote stands for it; and
\* the months_covered of an annual quote counts exactly those months.
C19_AnnualRule ==
    (Done /\ ValidSchedule) =>
        /\ \A m \in AnnualMonths :
               /\ \E j \in 1..MaxYearAhead :
                      /\ IndexesOf(m) = {GYES(j)}
                      /\ \/ m \in Period(reference_month, GYES(j))
                         \/ j = MaxYearAhead /\ InThirdYear(m) /\ duration_months > 24
               /\ \A n \in Window :
                      (n > m /\ SameYear(m, n)) =>
                          \/ IndexesOf(n) = IndexesOf(m)
                          \/ HasMonthlyQuoteFor(n)
                          \/ HasQuarterlyQuoteFor(n)
        /\ \A j \in 1..MaxYearAhead :
               MonthsOf(GYES(j)) # {} => weights[GYES(j)] = Cardinality(MonthsOf(GYES(j)))

\* A finished allocation with a month on an annual quote, a later month of
\* the same year on the same quote, and a later month of the same year on a
\* quarterly quote.
C19_Witness ==
    /\ result.kind = "AllocationResult"
    /\ \E m \in AnnualMonths :
           /\ \E n \in Window : n > m /\ SameYear(m, n) /\ IndexesOf(n) = IndexesOf(m)
           /\ \E n \in Window :
                  /\ n > m
                  /\ SameYear(m, n)
                  /\ \E k \in 1..MaxQuarterAhead : GQES(k) \in IndexesOf(n)


\* The contract months the walk has dealt with: mapped to an index or marked
\* unassigned.
Handled == {s[1] : s \in slots} \cup unassigned

\* One step of the month walk deals with at least one further contract month
\* and stays inside the contract; the step that ends the walk comes when all
\* duration_months months are dealt with and yields a result or an error.
WalkStep ==
    pc = "walk" =>
        \/ /\ pc' = "walk"
           /\ cursor' > cursor
           /\ cursor' <= duration_months
           /\ Handled' \subseteq Window
           /\ Handled \subseteq Handled'
           /\ Handled' # Handled
        \/ /\ pc' = "done"
           /\ cursor = duration_months
           /\ Handled = Window
           /\ result'.kind \in {"AllocationResult", "NoQuoteAvailableError",
                                "CoverageMismatchError"}

PromptOf(c) ==
    [ref |-> c.ref, start |-> c.start, duration |-> c.duration, quotes |-> c.quotes]

OutcomeOf(c) == [result |-> c.result, slots |-> c.slots, unassigned |-> c.unassigned]

\* Call c has returned what every call made alone for the same inputs has.
AsAlone(c) ==
    \A i \in DOMAIN log : log[i].inputs = PromptOf(c) => log[i].outcome = OutcomeOf(c)

NoInterference ==
    (mode = "concurrent" /\ mode' = "concurrent") =>
        \/ parked' = parked
        \/ parked' = Running /\ Running' = parked

-----------------------------------------------------------------------------
(* split_text_into_chunks (src/analyze_contracts.py): a text is a sequence *)
(* of characters.                                                          *)

\* Longest text.
MaxTextLen == 6

\* Largest max_size.
MaxChunkSize == 3

\* Chunks after which the splitting loop is no longer followed.
MaxChunks == 8

\* A letter, the full stop, the blank and the line feed.
Chars == {"a", ".", " ", "\n"}

Texts == UNION {[1..n -> Chars] : n \in 0..MaxTextLen}

ParagraphBreak == <<"\n", "\n">>

IsSpace(c) == c \in {" ", "\n"}

\* s[from:] and s[:to], positions counted from 0.
SliceFrom(s, from) == SubSeq(s, from + 1, Len(s))

SliceTo(s, to) == SubSeq(s, 1, to)

\* str.strip(): the white space at both ends removed.
RECURSIVE LStrip(_)
LStrip(s) == IF s # <<>> /\ IsSpace(Head(s)) THEN LStrip(Tail(s)) ELSE s

RECURSIVE RStrip(_)
RStrip(s) ==
    IF s # <<>> /\ IsSpace(s[Len(s)]) THEN RStrip(SubSeq(s, 1, Len(s) - 1)) ELSE s

Strip(s) == RStrip(LStrip(s))

\* The first position, counted from 0, of a paragraph break in s, or -1.
FindBreak(s) ==
    LET at == {i \in 0..(Len(s) - 2) : s[i + 1] = "\n" /\ s[i + 2] = "\n"} IN
    IF at = {} THEN -1 ELSE CHOOSE i \in at : \A j \in at : i <= j

\* text.split('\n\n')
RECURSIVE SplitParagraphs(_)
SplitParagraphs(s) ==
    LET i == FindBreak(s) IN
    IF i = -1 THEN <<s>>
    ELSE <<SliceTo(s, i)>> \o SplitParagraphs(SliceFrom(s, i + 2))

\* s.rfind('. ', 0, end): the last position, counted from 0, at which '. '
\* lies inside s[0:end], or -1.
RFindSentenceEnd(s, end) ==
    LET stop == IF end < Len(s) THEN end ELSE Len(s)
        at == {i \in 0..(stop - 2) : s[i + 1] = "." /\ s[i + 2] = " "} IN
    IF at = {} THEN -1 ELSE CHOOSE i \in at : \A j \in at : i >= j

\* Where the oversized chunk is cut.
SplitPoint ==
    IF RFindSentenceEnd(current_chunk, max_size) = -1 THEN max_size
    ELSE RFindSentenceEnd(current_chunk, max_size)

\* if len(text) <= max_size: return [text]; else the paragraphs are taken
\* one by one.
ChunkStart ==
    /\ chunk_pc = "start"
    /\ IF Len(text) <= max_size
       THEN /\ chunks' = <<text>>
            /\ chunk_pc' = "done"
            /\ UNCHANGED paragraphs
       ELSE /\ chunks' = <<>>
            /\ paragraphs' = SplitParagraphs(text)
            /\ chunk_pc' = "paragraph"
    /\ current_chunk' = <<>>
    /\ UNCHANGED <<text, max_size, NotChunk>>

\* One paragraph: added to the current chunk if it fits, else the current
\* chunk is closed and the paragraph starts the next one.
TakeParagraph ==
    /\ chunk_pc = "paragraph"
    /\ paragraphs # <<>>
    /\ LET paragraph == Head(paragraphs) IN
       IF Len(current_chunk) + Len(paragraph) + 2 <= max_size
       THEN /\ current_chunk' = current_chunk \o paragraph \o ParagraphBreak
            /\ UNCHANGED <<chunks, chunk_pc>>
       ELSE /\ chunks' = IF current_chunk # <<>>
                         THEN Append(chunks, Strip(current_chunk)) ELSE chunks
            /\ current_chunk' = paragraph \o ParagraphBreak
            /\ chunk_pc' = "split"
    /\ paragraphs' = Tail(paragraphs)
    /\ UNCHANGED <<text, max_size, NotChunk>>

\* One turn of  while len(current_chunk) > max_size.
SplitOversized ==
    /\ chunk_pc = "split"
    /\ Len(current_chunk) > max_size
    /\ Len(chunks) < MaxChunks
    /\ chunks' = Append(chunks, Strip(SliceTo(current_chunk, SplitPoint)))
    /\ current_chunk' = Strip(SliceFrom(current_chunk, SplitPoint)) \o ParagraphBreak
    /\ UNCHANGED <<text, max_size, paragraphs, chunk_pc, NotChunk>>

\* The while loop is left.
SplitDone ==
    /\ chunk_pc = "split"
    /\ Len(current_chunk) <= max_size
    /\ chunk_pc' = "paragraph"
    /\ UNCHANGED <<text, max_size, paragraphs, current_chunk, chunks, NotChunk>>

\* After the last paragraph: the current chunk is closed.
ChunkReturn ==
    /\ chunk_pc = "paragraph"
    /\ paragraphs = <<>>
    /\ chunks' = IF current_chunk # <<>>
                 THEN Append(chunks, Strip(current_chunk)) ELSE chunks
    /\ chunk_pc' = "done"
    /\ UNCHANGED <<text, max_size, paragraphs, current_chunk, NotChunk>>


\* The price calculation at rest while another script runs.
GasIdle == Given(Example5) /\ FirstCall

\* Every text of up to MaxTextLen characters and every max_size from 1 to
\* MaxChunkSize.
ChunkInit ==
    /\ \E n \in 0..MaxTextLen : \E t \in [1..n -> Chars] : text = t
    /\ max_size \in 1..MaxChunkSize
    /\ paragraphs = <<>>
    /\ current_chunk = <<>>
    /\ chunks = <<>>
    /\ chunk_pc = "start"
    /\ GasIdle
    /\ RetryIdle
    /\ ScrapeIdle
    /\ DetailsIdle
    /\ AnalyzeIdle
    /\ VortalIdle
    /\ TenderIdle

ChunkNext ==
    \/ ChunkStart
    \/ TakeParagraph
    \/ SplitOversized
    \/ SplitDone
    \/ ChunkReturn

ChunkSpec == ChunkInit /\ [][ChunkNext]_vars

\* C21: every turn of the loop that splits an oversized paragraph strictly
\* shortens current_chunk, so that split_text_into_chunks terminates for
\* every text and every max_size >= 1.
C21_SplitShortens ==
    [][(chunk_pc = "split" /\ Len(current_chunk) > max_size)
           => Len(current_chunk') < Len(current_chunk)]_vars


-----------------------------------------------------------------------------
(* process_with_retry (src/ext_unstructured.py). *)

\* Largest max_retries.
MaxRetries == 4

\* What one attempt can come to: extract_text returns False, extract_text
\* raises, no output file, a zero-byte output file, a file with text.
AttemptOutcomes == {"false", "raises", "no_file", "zero_byte", "text"}

\* The dict returned.
RetryDict(success, attempts, error) ==
    [kind |-> "returned", success |-> success, attempts |-> attempts, error |-> error]

\* An exception leaves the function.
Raised(error) == [kind |-> "raised", error |-> error]

\* The message of the exception an attempt ends in.
ErrorOf(outcome) ==
    CASE outcome = "false"   -> "Extraction returned False"
      [] outcome = "no_file" -> "Output file was not created"
      [] OTHER               -> "extract_text failed"

\* for attempt in range(max_retries): one attempt.  A failed attempt is
\* caught by  except Exception as e : e is bound in the handler and is
\* deleted when the handler is left.  A zero-byte file is tried again, or
\* returned as a failure on the last attempt.
Attempt ==
    /\ retry_pc = "loop"
    /\ attempt < max_retries
    /\ \E outcome \in AttemptOutcomes :
        /\ tried' = Append(tried, outcome)
        /\ CASE outcome \in {"false", "raises", "no_file"} ->
                    /\ e' = "unbound"
                    /\ attempt' = attempt + 1
                    /\ UNCHANGED <<retry_result, retry_pc>>
             [] outcome = "zero_byte" ->
                    /\ IF attempt < max_retries - 1
                       THEN /\ attempt' = attempt + 1
                            /\ UNCHANGED <<retry_result, retry_pc>>
                       ELSE /\ retry_result' =
                                   RetryDict(FALSE, attempt + 1, "Zero-byte file produced")
                            /\ retry_pc' = "done"
                            /\ UNCHANGED attempt
                    /\ UNCHANGED e
             [] outcome = "text" ->
                    /\ retry_result' = RetryDict(TRUE, attempt + 1, "")
                    /\ retry_pc' = "done"
                    /\ UNCHANGED <<attempt, e>>
    /\ UNCHANGED <<max_retries, NotRetry>>

\* The loop is over.
LoopEnd ==
    /\ retry_pc = "loop"
    /\ attempt >= max_retries
    /\ retry_pc' = "return"
    /\ UNCHANGED <<max_retries, attempt, tried, e, retry_result, NotRetry>>

\* return {'success': False, 'attempts': max_retries, 'error': str(e), ...}:
\* reading e when it is not bound raises UnboundLocalError.
FinalReturn ==
    /\ retry_pc = "return"
    /\ retry_result' = IF e = "unbound" THEN Raised("UnboundLocalError")
                       ELSE RetryDict(FALSE, max_retries, e)
    /\ retry_pc' = "done"
    /\ UNCHANGED <<max_retries, attempt, tried, e, NotRetry>>

RetryInit ==
    /\ max_retries \in 0..MaxRetries
    /\ attempt = 0
    /\ tried = <<>>
    /\ e = "unbound"
    /\ retry_result = [kind |-> "none"]
    /\ retry_pc = "loop"
    /\ GasIdle
    /\ ChunkIdle
    /\ ScrapeIdle
    /\ DetailsIdle
    /\ AnalyzeIdle
    /\ VortalIdle
    /\ TenderIdle

RetryNext ==
    \/ Attempt
    \/ LoopEnd
    \/ FinalReturn

RetrySpec == RetryInit /\ [][RetryNext]_vars

\* Every one of the max_retries attempts failed: extract_text returned False
\* or raised.
AllAttemptsFailed ==
    /\ max_retries >= 1
    /\ Len(tried) = max_retries
    /\ \A i \in DOMAIN tried : tried[i] \in {"false", "raises"}

\* C22: when extraction fails on every one of the max_retries attempts,
\* process_with_retry returns a dict with success = False and attempts =
\* max_retries and does not raise.
C22_FailureReturned ==
    (retry_pc = "done" /\ AllAttemptsFailed) =>
        /\ retry_result.kind = "returned"
        /\ retry_result.success = FALSE
        /\ retry_result.attempts = max_retries


-----------------------------------------------------------------------------
(* process_contracts.main (src/process_contracts.py): the pages of the     *)
(* search result are fetched and appended to the CSV file, with a          *)
(* checkpoint after every page.                                            *)

\* Runs of the script, the first one and the resumed ones.
MaxRuns == 2

PAGE_SIZE == 50

expected_total == 2146

expected_pages == 43

\* The items of a page: PAGE_SIZE, and the rest on the last page.
ItemsOn(p) ==
    IF (p + 1) * PAGE_SIZE <= expected_total THEN PAGE_SIZE
    ELSE expected_total - p * PAGE_SIZE

\* save_progress(last_page, total_contracts)
Progress(last, total) == [exists |-> TRUE, last_page |-> last, total_contracts |-> total]

\* load_progress(): the checkpoint, or (0, 0) when there is none.
LoadedProgress ==
    IF progress_file.exists
    THEN <<progress_file.last_page, progress_file.total_contracts>>
    ELSE <<0, 0>>

\* The run starts: the checkpoint is loaded and the first page is fetched
\* to verify the total.
RunStart ==
    /\ scrape_pc = "start"
    /\ start_page' = LoadedProgress[1]
    /\ page' = LoadedProgress[1]
    /\ total_contracts' = LoadedProgress[2]
    /\ scrape_pc' = "loop"
    /\ UNCHANGED <<output_csv, progress_file, runs, NotScrape>>

\* The first page could not be fetched or has another total: return.
VerifyFailed ==
    /\ scrape_pc = "start"
    /\ scrape_pc' = "ended"
    /\ UNCHANGED <<output_csv, progress_file, start_page, page, total_contracts,
                   runs, NotScrape>>

\* A page is fetched, its items are appended, the checkpoint is written;
\* the loop is left when all the contracts are there.
PageSaved ==
    /\ scrape_pc = "loop"
    /\ page < expected_pages
    /\ output_csv' = Append(output_csv, page)
    /\ total_contracts' = total_contracts + ItemsOn(page)
    /\ progress_file' = Progress(page + 1, total_contracts + ItemsOn(page))
    /\ page' = IF total_contracts + ItemsOn(page) >= expected_total
               THEN expected_pages ELSE page + 1
    /\ UNCHANGED <<start_page, runs, scrape_pc, NotScrape>>

\* The run is stopped at a page: the time is up, the page could not be
\* fetched, or its items could not be appended.
PageStopped ==
    /\ scrape_pc = "loop"
    /\ page < expected_pages
    /\ progress_file' = Progress(page, total_contracts)
    /\ scrape_pc' = "ended"
    /\ UNCHANGED <<output_csv, start_page, page, total_contracts, runs, NotScrape>>

\* An exception in the loop (a response that is not a JSON object, for one):
\* except Exception: save_progress(start_page, total_contracts).
CriticalError ==
    /\ scrape_pc = "loop"
    /\ page < expected_pages
    /\ progress_file' = Progress(start_page, total_contracts)
    /\ scrape_pc' = "ended"
    /\ UNCHANGED <<output_csv, start_page, page, total_contracts, runs, NotScrape>>

\* After the loop: the checkpoint is removed when all contracts are there.
LoopOver ==
    /\ scrape_pc = "loop"
    /\ page >= expected_pages
    /\ IF total_contracts < expected_total
       THEN scrape_pc' = "ended" /\ UNCHANGED progress_file
       ELSE scrape_pc' = "completed" /\ progress_file' = NoFile
    /\ UNCHANGED <<output_csv, start_page, page, total_contracts, runs, NotScrape>>

\* "Please run the script again to continue from this point."
RunAgain ==
    /\ scrape_pc = "ended"
    /\ runs < MaxRuns
    /\ runs' = runs + 1
    /\ scrape_pc' = "start"
    /\ UNCHANGED <<output_csv, progress_file, start_page, page, total_contracts,
                   NotScrape>>

ScrapeInit ==
    /\ output_csv = <<>>
    /\ progress_file = NoFile
    /\ start_page = 0
    /\ page = 0
    /\ total_contracts = 0
    /\ runs = 1
    /\ scrape_pc = "start"
    /\ GasIdle
    /\ ChunkIdle
    /\ RetryIdle
    /\ DetailsIdle
    /\ AnalyzeIdle
    /\ VortalIdle
    /\ TenderIdle

ScrapeNext ==
    \/ RunStart
    \/ VerifyFailed
    \/ PageSaved
    \/ PageStopped
    \/ CriticalError
    \/ LoopOver
    \/ RunAgain

ScrapeSpec == ScrapeInit /\ [][ScrapeNext]_vars

\* The rows of the pages appended.
RECURSIVE RowsOf(_)
RowsOf(pages) == IF pages = <<>> THEN 0 ELSE ItemsOn(Head(pages)) + RowsOf(Tail(pages))

\* C23: every checkpoint in the progress file is consistent with the output
\* CSV: last_page is the first page whose rows have not been appended and
\* total_contracts is the number of rows appended; and over all runs and
\* resumes the pages appended are 0, 1, 2, ... in order, none twice and none
\* skipped.
C23_CheckpointConsistent ==
    /\ \A i \in DOMAIN output_csv : output_csv[i] = i - 1
    /\ progress_file.exists =>
           /\ progress_file.last_page = Len(output_csv)
           /\ progress_file.total_contracts = RowsOf(output_csv)


-----------------------------------------------------------------------------
(* process_contract_details.main (src/process_contract_details.py): the    *)
(* details of every row of the input CSV are fetched and appended, with a  *)
(* checkpoint after every row.                                             *)

\* Rows of the input CSV.
MaxRows == 4

\* Runs of the script, the first one and the resumed ones.
MaxDetailsRuns == 2

\* save_progress(current_index, total_processed)
DetailsProgress(index, total) ==
    [exists |-> TRUE, current_index |-> index, total_processed |-> total]

\* load_progress(): the checkpoint, or (0, 0) when there is none.
LoadedDetailsProgress ==
    IF details_progress.exists
    THEN <<details_progress.current_index, details_progress.total_processed>>
    ELSE <<0, 0>>

\* The run starts: the checkpoint is loaded, the input CSV is opened.
DetailsStart ==
    /\ details_pc = "start"
    /\ start_index' = LoadedDetailsProgress[1]
    /\ total_processed' = LoadedDetailsProgress[2]
    /\ row_index' = 0
    /\ details_pc' = "loop"
    /\ UNCHANGED <<details_csv, details_progress, details_runs, NotDetails>>

\* if i < start_index: continue
RowSkipped ==
    /\ details_pc = "loop"
    /\ row_index < MaxRows
    /\ row_index < start_index
    /\ row_index' = row_index + 1
    /\ UNCHANGED <<details_csv, details_progress, start_index, total_processed,
                   details_runs, details_pc, NotDetails>>

\* The details of row i are fetched and appended, the checkpoint is written.
RowSaved ==
    /\ details_pc = "loop"
    /\ row_index < MaxRows
    /\ row_index >= start_index
    /\ details_csv' = Append(details_csv, row_index)
    /\ total_processed' = total_processed + 1
    /\ details_progress' = DetailsProgress(row_index + 1, total_processed + 1)
    /\ row_index' = row_index + 1
    /\ UNCHANGED <<start_index, details_runs, details_pc, NotDetails>>

\* The run is stopped at row i before anything is appended: the time is up,
\* the details could not be fetched or appended, or the row raised.
RowStopped ==
    /\ details_pc = "loop"
    /\ row_index < MaxRows
    /\ row_index >= start_index
    /\ details_progress' = DetailsProgress(row_index, total_processed)
    /\ details_pc' = "ended"
    /\ UNCHANGED <<details_csv, start_index, row_index, total_processed,
                   details_runs, NotDetails>>

\* The details of row i are appended and counted, then writing the
\* checkpoint raises: except Exception: save_progress(i, total_processed).
RowSavedThenError ==
    /\ details_pc = "loop"
    /\ row_index < MaxRows
    /\ row_index >= start_index
    /\ details_csv' = Append(details_csv, row_index)
    /\ total_processed' = total_processed + 1
    /\ details_progress' = DetailsProgress(row_index, total_processed + 1)
    /\ details_pc' = "ended"
    /\ UNCHANGED <<start_index, row_index, details_runs, NotDetails>>

\* Reading the next row of the input CSV raises (outside the try of the
\* row): except Exception: save_progress(start_index, total_processed).
DetailsCriticalError ==
    /\ details_pc = "loop"
    /\ row_index < MaxRows
    /\ details_progress' = DetailsProgress(start_index, total_processed)
    /\ details_pc' = "ended"
    /\ UNCHANGED <<details_csv, start_index, row_index, total_processed,
                   details_runs, NotDetails>>

\* After the last row: the checkpoint is removed.
DetailsOver ==
    /\ details_pc = "loop"
    /\ row_index >= MaxRows
    /\ details_progress' = NoFile
    /\ details_pc' = "completed"
    /\ UNCHANGED <<details_csv, start_index, row_index, total_processed,
                   details_runs, NotDetails>>

\* "Please run the script again to continue from this point."
DetailsAgain ==
    /\ details_pc = "ended"
    /\ details_runs < MaxDetailsRuns
    /\ details_runs' = details_runs + 1
    /\ details_pc' = "start"
    /\ UNCHANGED <<details_csv, details_progress, start_index, row_index,
                   total_processed, NotDetails>>

DetailsInit ==
    /\ details_csv = <<>>
    /\ details_progress = NoFile
    /\ start_index = 0
    /\ row_index = 0
    /\ total_processed = 0
    /\ details_runs = 1
    /\ details_pc = "start"
    /\ GasIdle
    /\ ChunkIdle
    /\ RetryIdle
    /\ ScrapeIdle
    /\ AnalyzeIdle
    /\ VortalIdle
    /\ TenderIdle

DetailsNext ==
    \/ DetailsStart
    \/ RowSkipped
    \/ RowSaved
    \/ RowStopped
    \/ RowSavedThenError
    \/ DetailsCriticalError
    \/ DetailsOver
    \/ DetailsAgain

DetailsSpec == DetailsInit /\ [][DetailsNext]_vars

\* C24: the rows written to the output CSV are a duplicate-free prefix of
\* the input rows in input order, over all stopped and resumed runs, and the
\* saved current_index always equals the number of rows appended.
C24_PrefixNoDuplicates ==
    /\ \A k \in DOMAIN details_csv : details_csv[k] = k - 1
    /\ details_progress.exists => details_progress.current_index = Len(details_csv)


-----------------------------------------------------------------------------
(* analyze_contracts (src/analyze_contracts.py) with resume=True: every    *)
(* contract folder is analysed, its row is added to the output CSV, and    *)
(* the progress dictionary is saved after every contract. Contract i of    *)
(* the list of get_contract_folders has id i.                              *)

\* Contracts with a folder in Extracted_txt, in the order of the input CSV.
MaxContracts == 3

\* Runs of the script, the first one and the resumed ones.
MaxAnalyzeRuns == 2

\* The dictionary load_progress returns when there is nothing to load.
FreshProgress ==
    [completed_ids |-> {}, last_processed_index |-> -1, errors |-> {}]

\* load_progress(): the saved dictionary, or a fresh one when the file does
\* not exist or reading it raises.
LoadProgress ==
    IF analysis_progress.exists
    THEN {analysis_progress.progress, FreshProgress}
    ELSE {FreshProgress}

\* save_progress(p): the file is written, or the exception is printed and
\* the file stays as it was.
SaveProgress(p) ==
    {[exists |-> TRUE, progress |-> p], analysis_progress}

\* "Load existing output if resuming": the rows of the output CSV, or none
\* when the file does not exist or reading it raises.
LoadOutput ==
    IF output_file # <<>> THEN {output_file, <<>>} ELSE {<<>>}

\* The two skip tests at the head of the loop.
Skips(i) ==
    \/ i <= progress.last_processed_index
    \/ i \in progress.completed_ids

\* The run starts: progress and existing output are loaded.
AnalyzeStart ==
    /\ analyze_pc = "start"
    /\ \E p \in LoadProgress : progress' = p
    /\ \E loaded \in LoadOutput : output_rows' = loaded
    /\ contract_index' = 0
    /\ analyze_pc' = "loop"
    /\ UNCHANGED <<output_file, analysis_progress, analyze_runs, NotAnalyze>>

\* continue: the contract is at or before last_processed_index, or its id
\* is in completed_ids.
ContractSkipped ==
    /\ analyze_pc = "loop"
    /\ contract_index < MaxContracts
    /\ Skips(contract_index)
    /\ contract_index' = contract_index + 1
    /\ UNCHANGED <<output_file, analysis_progress, progress, output_rows,
                   analyze_runs, analyze_pc, NotAnalyze>>

\* "No text files found for contract": continue.
ContractNoTexts ==
    /\ analyze_pc = "loop"
    /\ contract_index < MaxContracts
    /\ ~Skips(contract_index)
    /\ contract_index' = contract_index + 1
    /\ UNCHANGED <<output_file, analysis_progress, progress, output_rows,
                   analyze_runs, analyze_pc, NotAnalyze>>

\* The contract is analysed: its row is appended, the progress is updated
\* and saved.
ContractAnalyzed ==
    /\ analyze_pc = "loop"
    /\ contract_index < MaxContracts
    /\ ~Skips(contract_index)
    /\ output_rows' = Append(output_rows, contract_index)
    /\ LET p == [progress EXCEPT
                    !.completed_ids = @ \cup {contract_index},
                    !.last_processed_index = contract_index]
       IN  /\ progress' = p
           /\ \E file \in SaveProgress(p) : analysis_progress' = file
    /\ analyze_pc' = "saved"
    /\ UNCHANGED <<output_file, contract_index, analyze_runs, NotAnalyze>>

\* write_output_csv(output_rows, output_file): the file is replaced.
OutputWritten ==
    /\ analyze_pc = "saved"
    /\ output_file' = output_rows
    /\ contract_index' = contract_index + 1
    /\ analyze_pc' = "loop"
    /\ UNCHANGED <<analysis_progress, progress, output_rows, analyze_runs,
                   NotAnalyze>>

\* Reading or analysing the contract raises: the error is recorded and the
\* progress is saved.
ContractRaised ==
    /\ analyze_pc = "loop"
    /\ contract_index < MaxContracts
    /\ ~Skips(contract_index)
    /\ LET p == [progress EXCEPT !.errors = @ \cup {contract_index}]
       IN  /\ progress' = p
           /\ \E file \in SaveProgress(p) : analysis_progress' = file
    /\ contract_index' = contract_index + 1
    /\ UNCHANGED <<output_file, output_rows, analyze_runs, analyze_pc,
                   NotAnalyze>>

\* write_output_csv raises: the same handler records the error.
WriteRaised ==
    /\ analyze_pc = "saved"
    /\ LET p == [progress EXCEPT !.errors = @ \cup {contract_index}]
       IN  /\ progress' = p
           /\ \E file \in SaveProgress(p) : analysis_progress' = file
    /\ contract_index' = contract_index + 1
    /\ analyze_pc' = "loop"
    /\ UNCHANGED <<output_file, output_rows, analyze_runs, NotAnalyze>>

\* The run is interrupted, in the loop or between save_progress and
\* write_output_csv.
AnalyzeInterrupted ==
    /\ analyze_pc \in {"loop", "saved"}
    /\ analyze_pc' = "ended"
    /\ UNCHANGED <<output_file, analysis_progress, progress, output_rows,
                   contract_index, analyze_runs, NotAnalyze>>

\* After the last contract: return True.
AnalyzeOver ==
    /\ analyze_pc = "loop"
    /\ contract_index >= MaxContracts
    /\ analyze_pc' = "ended"
    /\ UNCHANGED <<output_file, analysis_progress, progress, output_rows,
                   contract_index, analyze_runs, NotAnalyze>>

\* The next run with resume=True.
AnalyzeAgain ==
    /\ analyze_pc = "ended"
    /\ analyze_runs < MaxAnalyzeRuns
    /\ analyze_runs' = analyze_runs + 1
    /\ analyze_pc' = "start"
    /\ UNCHANGED <<output_file, analysis_progress, progress, output_rows,
                   contract_index, NotAnalyze>>

AnalyzeInit ==
    /\ output_file = <<>>
    /\ analysis_progress = NoFile
    /\ progress = FreshProgress
    /\ output_rows = <<>>
    /\ contract_index = 0
    /\ analyze_runs = 1
    /\ analyze_pc = "start"
    /\ GasIdle
    /\ ChunkIdle
    /\ RetryIdle
    /\ ScrapeIdle
    /\ DetailsIdle
    /\ VortalIdle
    /\ TenderIdle

AnalyzeNext ==
    \/ AnalyzeStart
    \/ ContractSkipped
    \/ ContractNoTexts
    \/ ContractAnalyzed
    \/ OutputWritten
    \/ ContractRaised
    \/ WriteRaised
    \/ AnalyzeInterrupted
    \/ AnalyzeOver
    \/ AnalyzeAgain

AnalyzeSpec == AnalyzeInit /\ [][AnalyzeNext]_vars

\* C25: on a resumed run, a contract recorded in progress['errors'] and not
\* in completed_ids is never skipped by the loop: it is processed again,
\* whatever happened to the contracts after it in the run that recorded it.
C25_ErrorsProcessedAgain ==
    [][ContractSkipped =>
          ~(/\ contract_index \in progress.errors
            /\ contract_index \notin progress.completed_ids)]_vars

\* C26: over all runs with resume=True, the output CSV holds at most one
\* row per contract id, also after an interruption between save_progress
\* and write_output_csv and after a progress file that could not be
\* written or read.
C26_OneRowPerContract ==
    \A a, b \in DOMAIN output_file :
        output_file[a] = output_file[b] => a = b


-----------------------------------------------------------------------------
(* vortal_extract.process_csv (src/vortal_extract.py): the documents of    *)
(* every URL of the CSV are downloaded; the URLs processed are saved       *)
(* after every URL and loaded by the next run. URL u is row u of the CSV.  *)

\* Rows of the CSV, each with a valid URL of its own.
MaxUrls == 3

\* Runs of the script, the first one and the resumed ones.
MaxVortalRuns == 2

Urls == 1..MaxUrls

\* DownloadTracker.load_progress(): the saved set, or the empty set when
\* the file does not exist or cannot be read.
LoadedUrls ==
    IF download_progress.exists
    THEN {download_progress.processed_urls, {}}
    ELSE {{}}

\* The first pass over the CSV: the rows whose URL is not in processed.
RECURSIVE EntriesFrom(_, _)
EntriesFrom(u, processed) ==
    IF u > MaxUrls THEN <<>>
    ELSE IF u \notin processed
         THEN <<u>> \o EntriesFrom(u + 1, processed)
         ELSE EntriesFrom(u + 1, processed)

\* DownloadTracker.save_error_report()
ErrorReport(incomplete) == [exists |-> TRUE, incomplete_downloads |-> incomplete]

\* The run starts: the progress is loaded and the entries are collected;
\* with no entry left the run ends at once, after "All URLs have been
\* processed!" and an error report.
VortalStart ==
    /\ vortal_pc = "start"
    /\ \E processed \in LoadedUrls :
          /\ processed_urls' = processed
          /\ valid_entries' = EntriesFrom(1, processed)
          /\ vortal_pc' = IF EntriesFrom(1, processed) = <<>> THEN "ended" ELSE "loop"
          /\ error_file' = IF EntriesFrom(1, processed) = <<>> /\ processed # {}
                           THEN ErrorReport({})
                           ELSE error_file
    /\ incomplete_downloads' = {}
    /\ entry_index' = 1
    /\ UNCHANGED <<download_progress, documents, vortal_runs, NotVortal>>

\* DownloadTracker.save_progress(processed_urls)
SavedUrls(processed) == [exists |-> TRUE, processed_urls |-> processed]

\* extract_documents downloads every document: it returns True.
UrlComplete ==
    /\ vortal_pc = "loop"
    /\ entry_index <= Len(valid_entries)
    /\ documents' = [documents EXCEPT ![valid_entries[entry_index]] = "all"]
    /\ processed_urls' = processed_urls \cup {valid_entries[entry_index]}
    /\ download_progress' = SavedUrls(processed_urls')
    /\ entry_index' = entry_index + 1
    /\ UNCHANGED <<error_file, incomplete_downloads, valid_entries, vortal_runs,
                   vortal_pc, NotVortal>>

\* extract_documents downloads some of the documents: the incomplete
\* download is tracked and it returns True.
UrlPartial ==
    /\ vortal_pc = "loop"
    /\ entry_index <= Len(valid_entries)
    /\ documents' = [documents EXCEPT ![valid_entries[entry_index]] = "some"]
    /\ incomplete_downloads' = incomplete_downloads \cup {valid_entries[entry_index]}
    /\ processed_urls' = processed_urls \cup {valid_entries[entry_index]}
    /\ download_progress' = SavedUrls(processed_urls')
    /\ entry_index' = entry_index + 1
    /\ UNCHANGED <<error_file, valid_entries, vortal_runs, vortal_pc, NotVortal>>

\* extract_documents downloads nothing: the incomplete download is tracked
\* and it returns False.
UrlFailed ==
    /\ vortal_pc = "loop"
    /\ entry_index <= Len(valid_entries)
    /\ documents' = [documents EXCEPT ![valid_entries[entry_index]] = "none"]
    /\ incomplete_downloads' = incomplete_downloads \cup {valid_entries[entry_index]}
    /\ download_progress' = SavedUrls(processed_urls)
    /\ entry_index' = entry_index + 1
    /\ UNCHANGED <<error_file, processed_urls, valid_entries, vortal_runs,
                   vortal_pc, NotVortal>>

\* The run is stopped between two URLs.
VortalStopped ==
    /\ vortal_pc = "loop"
    /\ entry_index <= Len(valid_entries)
    /\ vortal_pc' = "ended"
    /\ UNCHANGED <<download_progress, error_file, documents, processed_urls,
                   incomplete_downloads, valid_entries, entry_index, vortal_runs,
                   NotVortal>>

\* After the last entry: the error report is saved.
VortalOver ==
    /\ vortal_pc = "loop"
    /\ entry_index > Len(valid_entries)
    /\ error_file' = ErrorReport(incomplete_downloads)
    /\ vortal_pc' = "ended"
    /\ UNCHANGED <<download_progress, documents, processed_urls,
                   incomplete_downloads, valid_entries, entry_index, vortal_runs,
                   NotVortal>>

\* The resumed run.
VortalAgain ==
    /\ vortal_pc = "ended"
    /\ vortal_runs < MaxVortalRuns
    /\ vortal_runs' = vortal_runs + 1
    /\ vortal_pc' = "start"
    /\ UNCHANGED <<download_progress, error_file, documents, processed_urls,
                   incomplete_downloads, valid_entries, entry_index, NotVortal>>

VortalInit ==
    /\ download_progress = NoFile
    /\ error_file = NoFile
    /\ documents = [u \in Urls |-> "untried"]
    /\ processed_urls = {}
    /\ incomplete_downloads = {}
    /\ valid_entries = <<>>
    /\ entry_index = 1
    /\ vortal_runs = 1
    /\ vortal_pc = "start"
    /\ GasIdle
    /\ ChunkIdle
    /\ RetryIdle
    /\ ScrapeIdle
    /\ DetailsIdle
    /\ AnalyzeIdle
    /\ TenderIdle

VortalNext ==
    \/ VortalStart
    \/ UrlComplete
    \/ UrlPartial
    \/ UrlFailed
    \/ VortalStopped
    \/ VortalOver
    \/ VortalAgain

VortalSpec == VortalInit /\ [][VortalNext]_vars

\* The entries of the run that is starting hold URL u.
Entered(u) ==
    \E k \in DOMAIN valid_entries' : valid_entries'[k] = u

\* C27: when a run starts, every URL whose last extraction downloaded only
\* some of its documents is among the entries the run processes, and every
\* other URL of the loaded progress is skipped.
C27_IncompleteProcessedAgain ==
    [][VortalStart =>
          \A u \in Urls :
              /\ documents[u] = "some" => Entered(u)
              /\ (u \in processed_urls' /\ documents[u] # "some") => ~Entered(u)]_vars


-----------------------------------------------------------------------------
(* GasTenderProcessor.extract_mibgas_data (src/gas_tender_processor.py):   *)
(* four lists get an entry for every row of the CSV, and                   *)
(* _write_updated_csv zips them with the rows. An entry is modelled by the *)
(* number of the row whose iteration appended it.                          *)

\* Rows of the CSV.
MaxTenderRows == 3

\* The keys of required_columns.
RequiredColumns == {"date", "winner", "k", "pe", "inicio", "indexante"}

\* CSV rows: shorter than the last required column, or not.
RowKinds == {"short", "full"}

RowLists == UNION {[1..n -> RowKinds] : n \in 0..MaxTenderRows}

\* The columns read before the first append of a row.
ReadFirst == {"date", "winner", "inicio", "indexante"}

\* The columns read after price_dates and start_supply_months were appended.
ReadLater == {"pe", "k"}

\* if len(row) <= max(col_indices.values()): four '-' and continue.
TenderRowShort ==
    /\ tender_pc = "loop"
    /\ row_idx <= Len(rows)
    /\ col_indices # {}
    /\ rows[row_idx] = "short"
    /\ winner_proposals' = Append(winner_proposals, row_idx)
    /\ companies_with_proposals' = Append(companies_with_proposals, row_idx)
    /\ price_dates' = Append(price_dates, row_idx)
    /\ start_supply_months' = Append(start_supply_months, row_idx)
    /\ row_idx' = row_idx + 1
    /\ UNCHANGED <<col_indices, rows, new_rows, tender_pc, NotTender>>

\* The row raises before anything is appended: max() of no index, or a
\* column read first that the headers do not have. The handler appends
\* '-' to the four lists.
TenderRowRaisedEarly ==
    /\ tender_pc = "loop"
    /\ row_idx <= Len(rows)
    /\ \/ col_indices = {}
       \/ rows[row_idx] = "full" /\ ~(ReadFirst \subseteq col_indices)
    /\ winner_proposals' = Append(winner_proposals, row_idx)
    /\ companies_with_proposals' = Append(companies_with_proposals, row_idx)
    /\ price_dates' = Append(price_dates, row_idx)
    /\ start_supply_months' = Append(start_supply_months, row_idx)
    /\ row_idx' = row_idx + 1
    /\ UNCHANGED <<col_indices, rows, new_rows, tender_pc, NotTender>>

\* The row raises at row[col_indices['pe']] or row[col_indices['k']], after
\* price_dates and start_supply_months were appended. The handler appends
\* '-' to the four lists.
TenderRowRaisedLate ==
    /\ tender_pc = "loop"
    /\ row_idx <= Len(rows)
    /\ rows[row_idx] = "full"
    /\ ReadFirst \subseteq col_indices
    /\ ~(ReadLater \subseteq col_indices)
    /\ price_dates' = Append(Append(price_dates, row_idx), row_idx)
    /\ start_supply_months' = Append(Append(start_supply_months, row_idx), row_idx)
    /\ winner_proposals' = Append(winner_proposals, row_idx)
    /\ companies_with_proposals' = Append(companies_with_proposals, row_idx)
    /\ row_idx' = row_idx + 1
    /\ UNCHANGED <<col_indices, rows, new_rows, tender_pc, NotTender>>

\* The row is processed to the end: one entry in each list.
TenderRowProcessed ==
    /\ tender_pc = "loop"
    /\ row_idx <= Len(rows)
    /\ rows[row_idx] = "full"
    /\ RequiredColumns \subseteq col_indices
    /\ price_dates' = Append(price_dates, row_idx)
    /\ start_supply_months' = Append(start_supply_months, row_idx)
    /\ companies_with_proposals' = Append(companies_with_proposals, row_idx)
    /\ winner_proposals' = Append(winner_proposals, row_idx)
    /\ row_idx' = row_idx + 1
    /\ UNCHANGED <<col_indices, rows, new_rows, tender_pc, NotTender>>

\* zip(rows, winner_proposals, companies_with_proposals, price_dates,
\* start_supply_months): as long as the shortest of them.
ZipRows ==
    LET n == Min(Len(rows),
                 Min(Min(Len(winner_proposals), Len(companies_with_proposals)),
                     Min(Len(price_dates), Len(start_supply_months))))
    IN  [k \in 1..n |->
            [row |-> k,
             proposal |-> winner_proposals[k],
             companies |-> companies_with_proposals[k],
             price_date |-> price_dates[k],
             start_supply_month |-> start_supply_months[k]]]

\* After the loop: _write_updated_csv.
WriteUpdatedCsv ==
    /\ tender_pc = "loop"
    /\ row_idx > Len(rows)
    /\ new_rows' = ZipRows
    /\ tender_pc' = "written"
    /\ UNCHANGED <<col_indices, rows, row_idx, winner_proposals,
                   companies_with_proposals, price_dates, start_supply_months,
                   NotTender>>

TenderInit ==
    /\ col_indices \in SUBSET RequiredColumns
    /\ rows \in RowLists
    /\ row_idx = 1
    /\ winner_proposals = <<>>
    /\ companies_with_proposals = <<>>
    /\ price_dates = <<>>
    /\ start_supply_months = <<>>
    /\ new_rows = <<>>
    /\ tender_pc = "loop"
    /\ GasIdle
    /\ ChunkIdle
    /\ RetryIdle
    /\ ScrapeIdle
    /\ DetailsIdle
    /\ AnalyzeIdle
    /\ VortalIdle

TenderNext ==
    \/ TenderRowShort
    \/ TenderRowRaisedEarly
    \/ TenderRowRaisedLate
    \/ TenderRowProcessed
    \/ WriteUpdatedCsv

TenderSpec == TenderInit /\ [][TenderNext]_vars

\* The list holds exactly one entry per row, entry i from row i.
OnePerRow(list) ==
    /\ Len(list) = Len(rows)
    /\ \A k \in DOMAIN list : list[k] = k

\* C28: after the row loop each of the four lists holds exactly one entry
\* per CSV row, and every row _write_updated_csv writes carries the entries
\* of its own row, also when a row raised after some lists were appended.
C28_ListsAligned ==
    tender_pc = "written" =>
        /\ OnePerRow(price_dates)
        /\ OnePerRow(start_supply_months)
        /\ OnePerRow(winner_proposals)
        /\ OnePerRow(companies_with_proposals)
        /\ Len(new_rows) = Len(rows)
        /\ \A k \in DOMAIN new_rows :
              /\ new_rows[k].price_date = k
              /\ new_rows[k].start_supply_month = k
              /\ new_rows[k].proposal = k
              /\ new_rows[k].companies = k

=============================================================================
